---- MODULE Spec2Model ----
(***************************************************************************)
(* Model of homeassistant/components/xiaomi.py: the setup of the Xiaomi    *)
(* gateway component (key validation, bounded discovery loop, listen,      *)
(* shutdown hook, service registration), the two ringtone services and     *)
(* the XiaomiDevice base class (constructor, push_data, parse_voltage).    *)
(*                                                                         *)
(* The gateway client (PyXiaomiGateway) and the host (hass) are external:  *)
(* every call made to them is recorded in `trace`, in program order, and   *)
(* what they answer is a nondeterministic input.                           *)
(***************************************************************************)
EXTENDS Integers, Sequences, FiniteSets, TLC

\* ------------------------------------------------------------------ bounds
MaxGateways == 2      \* longest configured gateway list
MaxRetry == 2         \* largest discovery_retry
MaxDevices == 2       \* most device handlers constructed

\* --------------------------------------------------------- program constants
KeyLength == 16
MAX_VOLT == 3300
MIN_VOLT == 2800
STOP_MID == 10000

\* ------------------------------------------------------------------ values
\* Python values that may be None, an int or a str.  A str is the sequence
\* of its characters.
None == [t |-> "none", i |-> 0, s |-> <<>>]
I(n) == [t |-> "int", i |-> n, s |-> <<>>]
S(str) == [t |-> "str", i |-> 0, s |-> str]

\* str.lower() on one character (hexadecimal letters suffice for a sid).
LowerChar(c) ==
  CASE c = "A" -> "a" [] c = "B" -> "b" [] c = "C" -> "c"
    [] c = "D" -> "d" [] c = "E" -> "e" [] c = "F" -> "f"
    [] OTHER -> c

\* str.replace(":", "")
RECURSIVE RemoveColons(_)
RemoveColons(str) ==
  IF str = <<>> THEN <<>>
  ELSE IF Head(str) = ":" THEN RemoveColons(Tail(str))
  ELSE <<Head(str)>> \o RemoveColons(Tail(str))

\* str.lower()
Lower(str) == [k \in 1..Len(str) |-> LowerChar(str[k])]

\* gateway['sid'].replace(":", "").lower()
NormalizeSid(str) == Lower(RemoveColons(str))

Digits == <<"0", "1", "2", "3", "4", "5", "6", "7", "8", "9">>

IsDigit(c) == \E k \in 1..Len(Digits) : Digits[k] = c

DigitValue(c) == (CHOOSE k \in 1..Len(Digits) : Digits[k] = c) - 1

RECURSIVE DigitsValue(_, _)
DigitsValue(str, acc) ==
  IF str = <<>> THEN acc
  ELSE DigitsValue(Tail(str), acc * 10 + DigitValue(Head(str)))

\* The part of a numeral after its optional sign.
Unsigned(str) ==
  IF str # <<>> /\ Head(str) \in {"-", "+"} THEN Tail(str) ELSE str

\* Whether int(v) returns (an int, or a str that is a decimal numeral).
IntOk(v) ==
  \/ v.t = "int"
  \/ /\ v.t = "str"
     /\ Unsigned(v.s) # <<>>
     /\ \A k \in 1..Len(Unsigned(v.s)) : IsDigit(Unsigned(v.s)[k])

\* int(v), where it returns.
IntOf(v) ==
  IF v.t = "int" THEN v.i
  ELSE IF Head(v.s) = "-" THEN 0 - DigitsValue(Unsigned(v.s), 0)
  ELSE DigitsValue(Unsigned(v.s), 0)

\* A dict as the set of its <<key, value>> pairs.
HasKey(d, k) == \E p \in d : p[1] = k
Get(d, k) == (CHOOSE p \in d : p[1] = k)[2]
Put(d, k, v) == {p \in d : p[1] # k} \cup {<<k, v>>}

\* --------------------------------------------------------------- the network
\* The hubs that can answer a discovery broadcast, each with its own sid
\* (the hub reports it in lower case without colons).
Hubs == 1..MaxGateways
HubSid(h) == <<"a", "b", Digits[h + 1]>>
\* The same sid as a user may write it.
RawSid(h) == <<"A", "B", ":", Digits[h + 1]>>
UnknownSid == <<"f", "f">>

\* ---------------------------------------------------------------- the inputs
Key16 == [k \in 1..KeyLength |-> "k"]
KeyShort == <<"k", "k", "k">>
KeyLong == Key16 \o <<"k">>

\* One entry of the configured gateway list.
ConfigEntries ==
  { [sid |-> None, key |-> None],
    [sid |-> S(RawSid(1)), key |-> S(Key16)],
    [sid |-> S(RawSid(1)), key |-> S(KeyShort)],
    [sid |-> S(RawSid(2)), key |-> S(KeyLong)] }

RECURSIVE SeqsUpTo(_, _)
SeqsUpTo(set, n) ==
  IF n = 0 THEN {<<>>}
  ELSE LET shorter == SeqsUpTo(set, n - 1)
       IN shorter \cup {Append(q, x) : q \in {r \in shorter : Len(r) = n - 1}, x \in set}

VARIABLES
  gateways,         \* config[DOMAIN][CONF_GATEWAYS], normalised in place
  discovery_retry,  \* config[DOMAIN][CONF_DISCOVERY_RETRY]
  pc,               \* where setup is
  tries,            \* iterations of the discovery loop run so far
  result,           \* what setup returned: "pending", "True", "False"
  live,             \* hass.data[PY_XIAOMI_GATEWAY].gateways, in insertion order
  reveals,          \* new connections each discover_gateways call revealed
  trace,            \* calls made to the client and the host, in order
  services,         \* services registered with the host
  hook,             \* the shutdown hook: "none", "armed", "fired"
  devices,          \* the XiaomiDevice objects, in construction order
  ha_devices,       \* per hub: device sid -> its handlers, in order
  last              \* the last device or service operation, and what it did

vars == <<gateways, discovery_retry, pc, tries, result, live, reveals, trace,
          services, hook, devices, ha_devices, last>>

XIAOMI_COMPONENTS == <<"binary_sensor", "sensor", "switch", "light", "cover">>

DeviceSids == {"d1"}

NoCall == [ringtone_id |-> None, gw_sid |-> None, ringtone_vol |-> None]

NoOp == [op |-> "none", dev |-> 0, data |-> {}, changed |-> FALSE,
         calls |-> <<>>, notified |-> 0, call |-> NoCall,
         outcome |-> "returned", log |-> "none", writes |-> <<>>,
         kept |-> TRUE]

Init ==
  /\ gateways \in SeqsUpTo(ConfigEntries, MaxGateways)
  /\ discovery_retry \in 0..MaxRetry
  /\ pc = "setup"
  /\ tries = 0
  /\ result = "pending"
  /\ live = <<>>
  /\ reveals = <<>>
  /\ trace = <<>>
  /\ services = {}
  /\ hook = "none"
  /\ devices = <<>>
  /\ ha_devices = [h \in Hubs |-> [d \in DeviceSids |-> <<>>]]
  /\ last = NoOp

\* ------------------------------------------------------------------- setup
\* CheckGateways with the key test written `len(key) < 16`.
RECURSIVE CheckGateways_TooShortOnly(_, _)
CheckGateways_TooShortOnly(gws, k) ==
  IF k > Len(gws) THEN [gateways |-> gws, ok |-> TRUE]
  ELSE LET sid == IF gws[k].sid # None
                    THEN S(Lower(RemoveColons(gws[k].sid.s)))
                    ELSE gws[k].sid
           gws2 == [gws EXCEPT ![k].sid = sid]
       IN IF gws[k].key = None THEN CheckGateways_TooShortOnly(gws2, k + 1)
          ELSE IF Len(gws[k].key.s) < KeyLength
            THEN [gateways |-> gws2, ok |-> FALSE]
          ELSE CheckGateways_TooShortOnly(gws2, k + 1)

\* The loop over the configured gateways: normalise the sid in place, warn
\* on a missing key, fail on a key that is not 16 characters long.
RECURSIVE CheckGateways(_, _)
CheckGateways(gws, k) ==
  IF k > Len(gws) THEN [gateways |-> gws, ok |-> TRUE]
  ELSE LET sid == IF gws[k].sid # None
                    THEN S(NormalizeSid(gws[k].sid.s))
                    ELSE gws[k].sid
           gws2 == [gws EXCEPT ![k].sid = sid]
       IN IF gws[k].key = None THEN CheckGateways(gws2, k + 1)
          ELSE IF Len(gws[k].key.s) # KeyLength
            THEN [gateways |-> gws2, ok |-> FALSE]
          ELSE CheckGateways(gws2, k + 1)

\* Lines 38-59: validation, then the client is created.
SetupValidate ==
  /\ pc = "setup"
  /\ LET r == CheckGateways(gateways, 1)
     IN /\ gateways' = r.gateways
        /\ IF r.ok
             THEN /\ trace' = Append(trace, "PyXiaomiGateway")
                  /\ pc' = "loop"
                  /\ result' = result
             ELSE /\ trace' = trace
                  /\ pc' = "done"
                  /\ result' = "False"
  /\ UNCHANGED <<discovery_retry, tries, live, reveals, services, hook,
                 devices, ha_devices, last>>

\* EnoughGateways with the break left out.
EnoughGateways_Never(found, gws) == FALSE

\* EnoughGateways with the break test written `>`.
EnoughGateways_Strict(found, gws) == Len(found) > Len(gws)

\* The loop's break test after a discover_gateways call.
EnoughGateways(found, gws) == Len(found) >= Len(gws)

\* Lines 62-66: one iteration of the discovery loop.  The client reveals
\* n new connections (any number the network allows).
Discover(n) ==
  /\ pc = "loop"
  /\ tries < discovery_retry
  /\ Len(live) + n <= MaxGateways
  /\ tries' = tries + 1
  /\ trace' = Append(trace, "discover_gateways")
  /\ live' = live \o [k \in 1..n |-> Len(live) + k]
  /\ reveals' = Append(reveals, n)
  /\ pc' = IF EnoughGateways(live', gateways) THEN "after_loop" ELSE "loop"
  /\ UNCHANGED <<gateways, discovery_retry, result, services, hook, devices,
                 ha_devices, last>>

\* SetupCalls with the services registered before listen.
SetupCalls_RegisterFirst ==
  <<"register play_ringtone", "register stop_ringtone", "listen", "listen_once">>
    \o [k \in 1..Len(XIAOMI_COMPONENTS) |-> "load_platform"]

\* What setup calls, in order, once a gateway was discovered (lines 71-132).
SetupCalls ==
  <<"listen", "listen_once">>
    \o [k \in 1..Len(XIAOMI_COMPONENTS) |-> "load_platform"]
    \o <<"register play_ringtone", "register stop_ringtone">>

\* SetupFinish with listen called before the test for no gateway.
SetupFinish_ListenBeforeCheck ==
  /\ pc = "after_loop" \/ (pc = "loop" /\ tries >= discovery_retry)
  /\ pc' = "done"
  /\ IF live = <<>>
       THEN /\ result' = "False"
            /\ trace' = Append(trace, "listen")
            /\ UNCHANGED <<services, hook>>
       ELSE /\ trace' = trace \o SetupCalls
            /\ hook' = "armed"
            /\ services' = {"play_ringtone", "stop_ringtone"}
            /\ result' = "True"
  /\ UNCHANGED <<gateways, discovery_retry, tries, live, reveals, devices,
                 ha_devices, last>>

\* SetupFinish failing unless every configured gateway was discovered.
SetupFinish_RequiresAll ==
  /\ pc = "after_loop" \/ (pc = "loop" /\ tries >= discovery_retry)
  /\ pc' = "done"
  /\ IF Len(live) < Len(gateways) \/ live = <<>>
       THEN /\ result' = "False"
            /\ UNCHANGED <<trace, services, hook>>
       ELSE /\ trace' = trace \o SetupCalls
            /\ hook' = "armed"
            /\ services' = {"play_ringtone", "stop_ringtone"}
            /\ result' = "True"
  /\ UNCHANGED <<gateways, discovery_retry, tries, live, reveals, devices,
                 ha_devices, last>>

\* Lines 68-133: after the loop (broken out of, or exhausted).
SetupFinish ==
  /\ pc = "after_loop" \/ (pc = "loop" /\ tries >= discovery_retry)
  /\ pc' = "done"
  /\ IF live = <<>>
       THEN /\ result' = "False"
            /\ UNCHANGED <<trace, services, hook>>
       ELSE /\ trace' = trace \o SetupCalls
            /\ hook' = "armed"
            /\ services' = {"play_ringtone", "stop_ringtone"}
            /\ result' = "True"
  /\ UNCHANGED <<gateways, discovery_retry, tries, live, reveals, devices,
                 ha_devices, last>>

\* Lines 74-77: the one-shot shutdown hook.
StopXiaomi ==
  /\ hook = "armed"
  /\ hook' = "fired"
  /\ trace' = Append(trace, "stop_listen")
  /\ UNCHANGED <<gateways, discovery_retry, pc, tries, result, live, reveals,
                 services, devices, ha_devices, last>>

\* ----------------------------------------------------------- XiaomiDevice
\* Python 3's round() of the fraction num / den (den > 0): to the nearest
\* integer, a tie to the even one.
RoundHalfEven(num, den) ==
  LET q == num \div den
      r == num % den
  IN IF 2 * r < den THEN q
     ELSE IF 2 * r > den THEN q + 1
     ELSE IF q % 2 = 0 THEN q ELSE q + 1

Min(a, b) == IF a <= b THEN a ELSE b
Max(a, b) == IF a >= b THEN a ELSE b

\* BatteryLevel with the percentage truncated, int(percent), not rounded.
BatteryLevel_Truncated(voltage) ==
  LET clamped == Max(Min(voltage, MAX_VOLT), MIN_VOLT)
  IN ((clamped - MIN_VOLT) * 100) \div (MAX_VOLT - MIN_VOLT)

\* Lines 175-181: the battery level stored for a voltage.
BatteryLevel(voltage) ==
  LET clamped == Max(Min(voltage, MAX_VOLT), MIN_VOLT)
  IN RoundHalfEven((clamped - MIN_VOLT) * 100, MAX_VOLT - MIN_VOLT)

\* ParseVoltage answering whether the stored level changed.
ParseVoltage_OnlyOnChange(attrs, data) ==
  IF ~HasKey(data, "voltage") THEN [attrs |-> attrs, ret |-> FALSE]
  ELSE [attrs |-> Put(attrs, "battery_level", BatteryLevel(Get(data, "voltage"))),
        ret |-> Put(attrs, "battery_level", BatteryLevel(Get(data, "voltage"))) # attrs]

\* Lines 171-182: parse_voltage, as the attributes after it and its result.
ParseVoltage(attrs, data) ==
  IF ~HasKey(data, "voltage") THEN [attrs |-> attrs, ret |-> FALSE]
  ELSE [attrs |-> Put(attrs, "battery_level", BatteryLevel(Get(data, "voltage"))),
        ret |-> TRUE]

\* Lines 184-186: parse_data is the device class's own; the base class only
\* fixes that it answers whether the state changed.  That answer is an input.
ParseData(attrs, data, changed) == [attrs |-> attrs, ret |-> changed]

\* PushResult with line 168 written `parse_data(data) and parse_voltage(data)`.
PushResult_And(attrs, data, changed) ==
  LET pd == ParseData(attrs, data, changed)
      pv == ParseVoltage(pd.attrs, data)
  IN IF ~pd.ret
       THEN [attrs |-> pd.attrs, calls |-> <<"parse_data">>, notified |-> 0]
       ELSE [attrs |-> pv.attrs, calls |-> <<"parse_data", "parse_voltage">>,
             notified |-> IF pv.ret THEN 1 ELSE 0]

\* Line 168: `parse_data(data) or parse_voltage(data)`, with Python's `or`:
\* parse_voltage runs only when parse_data returned a false value.
PushResult(attrs, data, changed) ==
  LET pd == ParseData(attrs, data, changed)
      pv == ParseVoltage(pd.attrs, data)
  IN IF pd.ret
       THEN [attrs |-> pd.attrs, calls |-> <<"parse_data">>, notified |-> 1]
       ELSE [attrs |-> pv.attrs, calls |-> <<"parse_data", "parse_voltage">>,
             notified |-> IF pv.ret THEN 1 ELSE 0]

\* Lines 144-146 of the constructor: parse_data, the attributes reset to an
\* empty dict, parse_voltage.
InitResult(data, changed) ==
  LET pd == ParseData({}, data, changed)
      pv == ParseVoltage({}, data)
  IN [attrs |-> pv.attrs, calls |-> <<"parse_data", "parse_voltage">>]

\* What a hub sends about a device.
Payloads ==
  { {},
    {<<"voltage", 3100>>},
    {<<"voltage", 2500>>, <<"status", 1>>},
    {<<"status", 1>>} }

\* CreateDevice putting the handler first in its list, insert(0, self).
CreateDevice_Prepend(hub, sid, data, changed) ==
  /\ result = "True"
  /\ Len(devices) < MaxDevices
  /\ \E k \in 1..Len(live) : live[k] = hub
  /\ LET r == InitResult(data, changed)
         dev == Len(devices) + 1
     IN /\ devices' = Append(devices, [sid |-> sid, hub |-> hub, attrs |-> r.attrs])
        /\ ha_devices' = [ha_devices EXCEPT ![hub][sid] = <<dev>> \o @]
        /\ last' = [NoOp EXCEPT !.op = "init", !.dev = dev, !.data = data,
                                !.changed = changed, !.calls = r.calls]
  /\ UNCHANGED <<gateways, discovery_retry, pc, tries, result, live, reveals,
                 trace, services, hook>>

\* Lines 139-147: XiaomiDevice.__init__, on a platform the setup loaded.
CreateDevice(hub, sid, data, changed) ==
  /\ result = "True"
  /\ Len(devices) < MaxDevices
  /\ \E k \in 1..Len(live) : live[k] = hub
  /\ LET r == InitResult(data, changed)
         dev == Len(devices) + 1
     IN /\ devices' = Append(devices, [sid |-> sid, hub |-> hub, attrs |-> r.attrs])
        /\ ha_devices' = [ha_devices EXCEPT ![hub][sid] = Append(@, dev)]
        /\ last' = [NoOp EXCEPT !.op = "init", !.dev = dev, !.data = data,
                                !.changed = changed, !.calls = r.calls]
  /\ UNCHANGED <<gateways, discovery_retry, pc, tries, result, live, reveals,
                 trace, services, hook>>

\* PushData with the attributes a dict of the class, shared by every handler.
PushData_SharedAttrs(dev, data, changed) ==
  /\ hook = "armed"
  /\ dev \in 1..Len(devices)
  /\ LET r == PushResult(devices[dev].attrs, data, changed)
     IN /\ devices' = [d \in 1..Len(devices) |-> [devices[d] EXCEPT !.attrs = r.attrs]]
        /\ last' = [NoOp EXCEPT !.op = "push", !.dev = dev, !.data = data,
                                !.changed = changed, !.calls = r.calls,
                                !.notified = r.notified,
                                !.kept = (r.attrs = devices[dev].attrs)]
  /\ UNCHANGED <<gateways, discovery_retry, pc, tries, result, live, reveals,
                 trace, services, hook, ha_devices>>

\* Lines 164-169: XiaomiDevice.push_data, called by the listening client.
PushData(dev, data, changed) ==
  /\ hook = "armed"
  /\ dev \in 1..Len(devices)
  /\ LET r == PushResult(devices[dev].attrs, data, changed)
     IN /\ devices' = [devices EXCEPT ![dev].attrs = r.attrs]
        /\ last' = [NoOp EXCEPT !.op = "push", !.dev = dev, !.data = data,
                                !.changed = changed, !.calls = r.calls,
                                !.notified = r.notified,
                                !.kept = (r.attrs = devices[dev].attrs)]
  /\ UNCHANGED <<gateways, discovery_retry, pc, tries, result, live, reveals,
                 trace, services, hook, ha_devices>>

\* ---------------------------------------------------------------- services
\* Line 91: the ids play_ringtone_service refuses, `[9, 14-19]`.
RefusedIds == {9, 14 - 19}

\* FindGateway without the comparison of the sid: the first live connection.
FindGateway_AnyHub(conns, gw_sid, k) ==
  IF k > Len(conns) THEN 0 ELSE conns[k]

\* Lines 104-105 and 119-120: the first live connection whose sid equals
\* gw_sid, or 0 (the loop's else branch).
RECURSIVE FindGateway(_, _, _)
FindGateway(conns, gw_sid, k) ==
  IF k > Len(conns) THEN 0
  ELSE IF S(HubSid(conns[k])) = gw_sid THEN conns[k]
  ELSE FindGateway(conns, gw_sid, k + 1)

\* gateway.write_to_hub(gateway.sid, **ringtone)
WriteToHub(hub, ringtone) == [hub |-> hub, sid |-> HubSid(hub), payload |-> ringtone]

\* Lines 104-109 and 119-125: the scan, and the write or the error.
Dispatch(conns, gw_sid, ringtone) ==
  LET hub == FindGateway(conns, gw_sid, 1)
  IN IF hub # 0
       THEN [outcome |-> "returned", log |-> "none",
             writes |-> <<WriteToHub(hub, ringtone)>>]
       ELSE [outcome |-> "returned", log |-> "unknown_sid", writes |-> <<>>]

Raised == [outcome |-> "raised", log |-> "none", writes |-> <<>>]
Refused(why) == [outcome |-> "returned", log |-> why, writes |-> <<>>]

\* Lines 83-109: play_ringtone_service.
PlayResult(call, conns) ==
  IF call.ringtone_id = None \/ call.gw_sid = None THEN Refused("mandatory")
  ELSE IF ~IntOk(call.ringtone_id) THEN Raised
  ELSE IF IntOf(call.ringtone_id) \in RefusedIds THEN Refused("undefined_mid")
  ELSE IF call.ringtone_vol = None
    THEN Dispatch(conns, call.gw_sid, {<<"mid", IntOf(call.ringtone_id)>>})
  ELSE IF ~IntOk(call.ringtone_vol) THEN Raised
  ELSE Dispatch(conns, call.gw_sid, {<<"mid", IntOf(call.ringtone_id)>>,
                                     <<"vol", IntOf(call.ringtone_vol)>>})

\* StopResult taking the mid from the call when the call carries one.
StopResult_UsesCallId(call, conns) ==
  IF call.gw_sid = None THEN Refused("mandatory")
  ELSE IF call.ringtone_id # None /\ IntOk(call.ringtone_id)
    THEN Dispatch(conns, call.gw_sid, {<<"mid", IntOf(call.ringtone_id)>>})
  ELSE Dispatch(conns, call.gw_sid, {<<"mid", STOP_MID>>})

\* Lines 111-125: stop_ringtone_service.
StopResult(call, conns) ==
  IF call.gw_sid = None THEN Refused("mandatory")
  ELSE Dispatch(conns, call.gw_sid, {<<"mid", STOP_MID>>})

\* What a service call may carry.
RingtoneIds == {None, I(8), I(9), I(14), I(0 - 5), S(<<"8">>), S(<<"x">>)}
GwSids == {None, S(RawSid(1)), S(UnknownSid)} \cup {S(HubSid(h)) : h \in Hubs}
Volumes == {None, I(7), S(<<"x">>)}
PlayCalls == [ringtone_id : RingtoneIds, gw_sid : GwSids, ringtone_vol : Volumes]
StopCalls == [ringtone_id : {None, I(8)}, gw_sid : GwSids, ringtone_vol : {None, I(7)}]

PlayRingtone(call) ==
  /\ "play_ringtone" \in services
  /\ LET r == PlayResult(call, live)
     IN last' = [NoOp EXCEPT !.op = "play", !.call = call, !.outcome = r.outcome,
                             !.log = r.log, !.writes = r.writes]
  /\ UNCHANGED <<gateways, discovery_retry, pc, tries, result, live, reveals,
                 trace, services, hook, devices, ha_devices>>

StopRingtone(call) ==
  /\ "stop_ringtone" \in services
  /\ LET r == StopResult(call, live)
     IN last' = [NoOp EXCEPT !.op = "stop", !.call = call, !.outcome = r.outcome,
                             !.log = r.log, !.writes = r.writes]
  /\ UNCHANGED <<gateways, discovery_retry, pc, tries, result, live, reveals,
                 trace, services, hook, devices, ha_devices>>

\* The setup, and the shutdown hook it registers.
NextSetup ==
  \/ SetupValidate
  \/ \E n \in 0..MaxGateways : Discover(n)
  \/ SetupFinish
  \/ StopXiaomi

\* The device handlers: construction and pushes.
NextDevices ==
  \/ \E hub \in Hubs, sid \in DeviceSids, data \in Payloads, changed \in BOOLEAN :
       CreateDevice(hub, sid, data, changed)
  \/ \E dev \in 1..MaxDevices, data \in Payloads, changed \in BOOLEAN :
       PushData(dev, data, changed)

\* The two services.
NextServices ==
  \/ \E call \in PlayCalls : PlayRingtone(call)
  \/ \E call \in StopCalls : StopRingtone(call)

Next == NextSetup \/ NextDevices \/ NextServices

\* The schema's default gateway list (line 26).
DefaultGateways == <<[sid |-> None, key |-> None]>>

InitDefault == Init /\ gateways = DefaultGateways

\* The whole component, from every configuration.
Spec == Init /\ [][Next]_vars

\* The setup alone, from every configuration.
SpecSetup == Init /\ [][NextSetup]_vars

\* The setup from the default gateway list, then the device handlers.
SpecDevices == InitDefault /\ [][NextSetup \/ NextDevices]_vars

\* The setup from the default gateway list, then the services.
SpecServices == InitDefault /\ [][NextSetup \/ NextServices]_vars

\* How far below min_volt and above max_volt the voltages of VoltagePayloads go.
VoltMargin == 100

\* Payloads that carry nothing but a voltage.
VoltagePayloads ==
  {{<<"voltage", v>>} : v \in (MIN_VOLT - VoltMargin)..(MAX_VOLT + VoltMargin)}

\* The state after a setup from the default configuration discovered one
\* gateway in one call, and a platform constructed one device from empty
\* data.
InitOneDevice ==
  /\ gateways = DefaultGateways
  /\ discovery_retry = 1
  /\ pc = "done"
  /\ tries = 1
  /\ result = "True"
  /\ live = <<1>>
  /\ reveals = <<1>>
  /\ trace = <<"PyXiaomiGateway", "discover_gateways">> \o SetupCalls
  /\ services = {"play_ringtone", "stop_ringtone"}
  /\ hook = "armed"
  /\ devices = <<[sid |-> "d1", hub |-> 1, attrs |-> {}]>>
  /\ ha_devices = [h \in Hubs |-> [d \in DeviceSids |-> IF h = 1 THEN <<1>> ELSE <<>>]]
  /\ last = [NoOp EXCEPT !.op = "init", !.dev = 1,
                         !.calls = <<"parse_data", "parse_voltage">>]

\* Pushes of a voltage for which parse_data reports no change, so that
\* parse_voltage runs.
NextVoltage ==
  \E data \in VoltagePayloads : PushData(1, data, FALSE)

\* The service calls of the interleaved specification: with and without
\* the required parameters, for a live and for an unknown sid.
FewCalls ==
  [ringtone_id : {None, I(8)}, gw_sid : {S(HubSid(1)), S(UnknownSid)},
   ringtone_vol : {I(7)}]

NextFewServices ==
  \/ \E call \in FewCalls : PlayRingtone(call)
  \/ \E call \in FewCalls : StopRingtone(call)

\* The default gateway list and a single discovery try.
InitOneTry == InitDefault /\ discovery_retry = 1

\* The setup from the default gateway list, then device construction,
\* pushes, service calls and the shutdown hook in any order.
SpecAll == InitOneTry /\ [][NextSetup \/ NextDevices \/ NextFewServices]_vars

\* parse_voltage on every voltage of VoltagePayloads, one push after another.
SpecVoltage == InitOneDevice /\ [][NextVoltage]_vars

\* ------------------------------------------------------------------ claims
Count(seq, x) == Cardinality({k \in 1..Len(seq) : seq[k] = x})

\* The client exists: validation passed and the discovery loop was entered.
ClientCreated == Count(trace, "PyXiaomiGateway") = 1

\* C1: a setup that returns True called listen exactly once, after its last
\* discover_gateways call; a setup that returns False never called listen;
\* stop_listen is called by the shutdown hook alone: at most once, after
\* listen, and never when setup did not succeed.
C1_ListenOnceThenStopOnce ==
  /\ result = "True" =>
       /\ Count(trace, "listen") = 1
       /\ \A a, b \in 1..Len(trace) :
            trace[a] = "discover_gateways" /\ trace[b] = "listen" => a < b
  /\ result = "False" => Count(trace, "listen") = 0
  /\ Count(trace, "stop_listen") = (IF hook = "fired" THEN 1 ELSE 0)
  /\ \A b \in 1..Len(trace) :
       trace[b] = "stop_listen" => \E a \in 1..(b - 1) : trace[a] = "listen"
  /\ result # "True" => Count(trace, "stop_listen") = 0 /\ hook = "none"

\* C1 witness: a successful setup after two discovery calls, shut down.
C1_Witness ==
  /\ result = "True"
  /\ Count(trace, "discover_gateways") = 2
  /\ hook = "fired"
  /\ trace[Len(trace)] = "stop_listen"

\* C2: a discovery loop that ends with no live connection makes setup fail
\* with no listen, no hook, no platform and no service; one that ends with
\* at least one live connection, even fewer than configured, makes it
\* succeed.
C2_EmptyFailsPartialSucceeds ==
  (pc = "done" /\ ClientCreated) =>
    /\ live = <<>> =>
         /\ result = "False"
         /\ Count(trace, "listen") = 0
         /\ Count(trace, "listen_once") = 0
         /\ Count(trace, "load_platform") = 0
         /\ hook = "none"
         /\ services = {}
    /\ live # <<>> => result = "True"

\* C2 witness: setup succeeded with fewer live connections than configured.
C2_Witness ==
  /\ pc = "done"
  /\ result = "True"
  /\ live # <<>>
  /\ Len(live) < Len(gateways)

\* Every discover_gateways call so far revealed exactly n new connections.
EveryCallRevealed(n) == \A k \in 1..Len(reveals) : reveals[k] = n

\* C3, as stated: with one new connection per call setup makes exactly
\* Len(gateways) calls; with none ever, exactly discovery_retry calls, and
\* fails.
C3_CallsAsStated ==
  (pc = "done" /\ ClientCreated) =>
    /\ EveryCallRevealed(1) => Count(trace, "discover_gateways") = Len(gateways)
    /\ EveryCallRevealed(0) =>
         /\ Count(trace, "discover_gateways") = discovery_retry
         /\ result = "False"

\* C3, amended: with one new connection per call setup makes exactly
\* min(max(N, 1), discovery_retry) calls; with none ever it fails, after
\* exactly discovery_retry calls when N >= 1 and after min(1,
\* discovery_retry) calls when N = 0.
C3_CallsBoundedByRetry ==
  (pc = "done" /\ ClientCreated) =>
    /\ EveryCallRevealed(1) =>
         Count(trace, "discover_gateways")
           = Min(Max(Len(gateways), 1), discovery_retry)
    /\ EveryCallRevealed(0) =>
         /\ Count(trace, "discover_gateways")
              = (IF Len(gateways) >= 1 THEN discovery_retry
                 ELSE Min(1, discovery_retry))
         /\ result = "False"

\* C3 witness: more gateways configured than retries allowed, one revealed
\* per call.
C3_Witness ==
  /\ pc = "done"
  /\ ClientCreated
  /\ Len(gateways) > discovery_retry
  /\ discovery_retry >= 1
  /\ reveals # <<>>
  /\ EveryCallRevealed(1)

\* Some configured gateway has a key that is not 16 characters long.
HasBadKey(gws) ==
  \E k \in 1..Len(gws) : gws[k].key # None /\ Len(gws[k].key.s) # 16

\* C4: with a non-null key of a length other than 16 in the list, setup
\* returns False before the client is created: no discover_gateways, no
\* listen, no hook, no service.
C4_BadKeyFailsEarly ==
  HasBadKey(gateways) =>
    /\ pc = "done" => result = "False"
    /\ result # "True"
    /\ trace = <<>>
    /\ live = <<>>
    /\ hook = "none"
    /\ services = {}

\* C4 witness: setup ended on the bad key of the second gateway.
C4_Witness ==
  /\ pc = "done"
  /\ Len(gateways) = 2
  /\ ~HasBadKey(<<gateways[1]>>)
  /\ HasBadKey(gateways)
  /\ result = "False"

\* The voltage of a payload that has one.
VoltageOf(data) == (CHOOSE p \in data : p[1] = "voltage")[2]

\* C5: every push runs parse_data and then parse_voltage on the payload,
\* whatever parse_data returns, so that after a push with a voltage the
\* handler's battery level is the percentage of that voltage.
C5_PushParsesBoth ==
  last.op = "push" =>
    /\ last.calls = <<"parse_data", "parse_voltage">>
    /\ (\E p \in last.data : p[1] = "voltage") =>
         <<"battery_level", BatteryLevel(VoltageOf(last.data))>>
           \in devices[last.dev].attrs

\* C6: a push notifies the host exactly once when parse_data or
\* parse_voltage reports a change for the payload, and not at all when
\* neither does.
C6_OneNotificationPerPush ==
  last.op = "push" =>
    last.notified
      = (IF last.changed \/ ParseVoltage({}, last.data).ret THEN 1 ELSE 0)

\* C6 witness: a push for which both report a change notified once.
C6_Witness ==
  /\ last.op = "push"
  /\ last.changed
  /\ ParseVoltage({}, last.data).ret
  /\ last.notified = 1

\* The ids the specification reserves.
ReservedIds == {9, 14, 15, 16, 17, 18, 19}

\* The live connection whose sid is the value v, if any.
LiveHubsWithSid(v) ==
  {h \in Hubs : (\E k \in 1..Len(live) : live[k] = h) /\ v = S(HubSid(h))}

\* C7: play_ringtone with a reserved id fails with the reserved-id error
\* and writes to no gateway, whatever the target sid and the volume.
C7_ReservedIdNeverWritten ==
  ( /\ last.op = "play"
    /\ last.call.gw_sid # None
    /\ IntOk(last.call.ringtone_id)
    /\ IntOf(last.call.ringtone_id) \in ReservedIds ) =>
    /\ last.writes = <<>>
    /\ last.log = "undefined_mid"

\* The call lacks a parameter its service requires, or names the sid of no
\* live connection.
BadCall(op, call) ==
  \/ op = "play" /\ call.ringtone_id = None
  \/ call.gw_sid = None
  \/ LiveHubsWithSid(call.gw_sid) = {}

\* C8: a play or stop call that lacks a required parameter, or whose target
\* sid is the sid of no live connection, writes to no gateway and leaves the
\* live connections as they were.
C8_BadCallWritesNothing ==
  [][ (last'.op \in {"play", "stop"} /\ BadCall(last'.op, last'.call)) =>
        (last'.writes = <<>> /\ live' = live) ]_vars

\* C8 witness: a play call, complete, for a sid that is the written form of
\* a live connection's sid but not equal to it, was refused as unknown.
C8_Witness ==
  /\ last.op = "play"
  /\ last.call.ringtone_id = I(8)
  /\ last.call.gw_sid = S(RawSid(1))
  /\ LiveHubsWithSid(S(HubSid(1))) = {1}
  /\ last.log = "unknown_sid"
  /\ last.writes = <<>>

\* The payload the specification gives a play call.
PlayPayload(call) ==
  IF call.ringtone_vol = None THEN {<<"mid", IntOf(call.ringtone_id)>>}
  ELSE {<<"mid", IntOf(call.ringtone_id)>>, <<"vol", IntOf(call.ringtone_vol)>>}

\* C9: play_ringtone with an id that is not reserved and the sid of a live
\* connection issues exactly one write, to that gateway, with mid the id and
\* vol the volume when one was given.
C9_PlayWritesOnce ==
  ( /\ last.op = "play"
    /\ IntOk(last.call.ringtone_id)
    /\ IntOf(last.call.ringtone_id) \notin ReservedIds
    /\ last.call.ringtone_vol = None \/ IntOk(last.call.ringtone_vol)
    /\ LiveHubsWithSid(last.call.gw_sid) # {} ) =>
    \E h \in LiveHubsWithSid(last.call.gw_sid) :
      last.writes = <<[hub |-> h, sid |-> HubSid(h),
                       payload |-> PlayPayload(last.call)]>>

\* C10: stop_ringtone with the sid of a live connection issues exactly one
\* write, to that gateway, with the payload {mid: 10000}, whatever else the
\* call carries.
C10_StopWritesStopMid ==
  (last.op = "stop" /\ LiveHubsWithSid(last.call.gw_sid) # {}) =>
    \E h \in LiveHubsWithSid(last.call.gw_sid) :
      last.writes = <<[hub |-> h, sid |-> HubSid(h),
                       payload |-> {<<"mid", 10000>>}]>>

\* C10 witness: a stop call that carried a ringtone id and a volume wrote
\* to the second of two live connections.
C10_Witness ==
  /\ last.op = "stop"
  /\ last.call.ringtone_id = I(8)
  /\ last.call.ringtone_vol = I(7)
  /\ Len(live) = 2
  /\ last.call.gw_sid = S(HubSid(2))
  /\ Len(last.writes) = 1
  /\ last.writes[1].hub = 2

\* The battery level a handler holds.
BatteryOf(dev) == (CHOOSE p \in devices[dev].attrs : p[1] = "battery_level")[2]

\* min(max(v, lo), hi), spelled out.
Clamp(v, lo, hi) == IF v < lo THEN lo ELSE IF v > hi THEN hi ELSE v

\* C11: for every integer voltage v, parse_voltage stores the integer
\* nearest to (clamp(v, 2800, 3300) - 2800) / 500 * 100: it lies in 0..100,
\* is 0 for v <= 2800 and 100 for v >= 3300, 50 for 3050 and 60 for 3100,
\* and never decreases when v increases.
C11_BatteryLevelOfVoltage ==
  /\ [](last.op = "push" =>
          LET v == VoltageOf(last.data)
              b == BatteryOf(last.dev)
          IN /\ devices[last.dev].attrs = {<<"battery_level", b>>}
             /\ b \in 0..100
             /\ 10 * b - 5 <= 2 * (Clamp(v, 2800, 3300) - 2800)
             /\ 2 * (Clamp(v, 2800, 3300) - 2800) <= 10 * b + 5
             /\ v <= 2800 => b = 0
             /\ v >= 3300 => b = 100
             /\ v = 3050 => b = 50
             /\ v = 3100 => b = 60)
  /\ [][(last.op = "push" /\ last'.op = "push"
           /\ VoltageOf(last.data) <= VoltageOf(last'.data)) =>
          BatteryOf(last.dev) <= BatteryOf(last.dev)']_vars

\* C11 witness: a push of 3050 millivolts left the battery level at 50.
C11_Witness ==
  /\ last.op = "push"
  /\ last.data = {<<"voltage", 3050>>}
  /\ devices[1].attrs = {<<"battery_level", 50>>}

\* What the service of the last call does with the call.
ServiceResult(op, call) ==
  IF op = "play" THEN PlayResult(call, live) ELSE StopResult(call, live)

\* C12: a target sid whose normal form (colons removed, lower case) is the
\* sid of a live connection resolves that connection: the call writes what
\* the same call with the normalised sid writes.
C12_LookupIgnoresCaseAndColons ==
  ( /\ last.op \in {"play", "stop"}
    /\ last.call.gw_sid.t = "str"
    /\ LiveHubsWithSid(S(NormalizeSid(last.call.gw_sid.s))) # {} ) =>
    last.writes
      = ServiceResult(last.op,
          [last.call EXCEPT !.gw_sid = S(NormalizeSid(last.call.gw_sid.s))]).writes

\* C13: every play or stop call returns to the host, whatever its
\* parameters; no error is raised to the caller.
C13_ServicesNeverRaise ==
  last.op \in {"play", "stop"} => last.outcome = "returned"

\* The connections revealed by the first k discover_gateways calls.
RECURSIVE RevealedBy(_)
RevealedBy(k) == IF k = 0 THEN 0 ELSE RevealedBy(k - 1) + reveals[k]

\* C14: a setup that passed validation calls discover_gateways at most
\* discovery_retry times, one call after the other, and makes no call after
\* one that left at least as many live connections as gateways are
\* configured; when that number is never reached it makes exactly
\* discovery_retry calls (none, and fails, when discovery_retry is 0).
C14_DiscoveryBounded ==
  ClientCreated =>
    /\ Count(trace, "discover_gateways") <= discovery_retry
    /\ Count(trace, "discover_gateways") = tries
    /\ Len(reveals) = tries
    /\ RevealedBy(Len(reveals)) = Len(live)
    /\ \A k \in 1..(Len(reveals) - 1) : RevealedBy(k) < Len(gateways)
    /\ (pc \in {"after_loop", "done"} /\ Len(live) < Len(gateways)) =>
         Count(trace, "discover_gateways") = discovery_retry
    /\ (pc = "done" /\ discovery_retry = 0) =>
         Count(trace, "discover_gateways") = 0 /\ result = "False"

\* C14 witness: two calls, the retry limit, left fewer live connections
\* than configured.
C14_Witness ==
  /\ pc = "done"
  /\ discovery_retry = 2
  /\ Count(trace, "discover_gateways") = 2
  /\ live # <<>>
  /\ Len(live) < Len(gateways)

\* C15: parse_voltage reports a change exactly when the payload has a
\* voltage field, also when the level it stores is the one already stored;
\* without a voltage field it leaves the handler's attributes as they were.
C15_VoltageFieldIsTheChange ==
  ( /\ last.op = "push"
    /\ ~last.changed
    /\ \E k \in 1..Len(last.calls) : last.calls[k] = "parse_voltage" ) =>
    /\ last.notified = (IF \E p \in last.data : p[1] = "voltage" THEN 1 ELSE 0)
    /\ (~\E p \in last.data : p[1] = "voltage") => last.kept

\* C15 witness: a push of the voltage whose level was already stored was
\* reported as a change.
C15_Witness ==
  /\ last.op = "push"
  /\ ~last.changed
  /\ last.data = {<<"voltage", 3100>>}
  /\ last.kept
  /\ devices[last.dev].attrs = {<<"battery_level", 60>>}
  /\ last.notified = 1

\* The calls setup made, without the shutdown hook's stop_listen.
SetupTrace == IF hook = "fired" THEN SubSeq(trace, 1, Len(trace) - 1) ELSE trace

\* C17: no gateway is written to unless setup succeeded and listen was
\* called; the two services are registered only by a successful setup, as
\* its last two calls, after the client was created, every
\* discover_gateways call, listen and the registration of the shutdown hook.
C17_ServicesRegisteredLast ==
  /\ (last.op \in {"play", "stop"} \/ last.writes # <<>>) =>
       /\ result = "True"
       /\ Count(trace, "listen") = 1
       /\ services = {"play_ringtone", "stop_ringtone"}
  /\ result # "True" =>
       /\ services = {}
       /\ Count(trace, "register play_ringtone") = 0
       /\ Count(trace, "register stop_ringtone") = 0
       /\ last.writes = <<>>
  /\ services # {} =>
       LET n == Len(SetupTrace)
       IN /\ result = "True"
          /\ n >= 5
          /\ SetupTrace[n] = "register stop_ringtone"
          /\ SetupTrace[n - 1] = "register play_ringtone"
          /\ \A k \in 1..(n - 2) :
               SetupTrace[k] \in {"PyXiaomiGateway", "discover_gateways", "listen",
                                  "listen_once", "load_platform"}
          /\ Count(SetupTrace, "PyXiaomiGateway") = 1
          /\ Count(SetupTrace, "listen") = 1
          /\ Count(SetupTrace, "listen_once") = 1
          /\ Count(SetupTrace, "discover_gateways") >= 1

\* C17 witness: a stop call wrote to a gateway after a successful setup.
C17_Witness ==
  /\ last.op = "stop"
  /\ Len(last.writes) = 1
  /\ result = "True"
  /\ hook = "armed"

\* The battery level the specification gives a voltage.
NearestPercent(v) ==
  CHOOSE b \in 0..100 :
    /\ 10 * b - 5 <= 2 * (Clamp(v, 2800, 3300) - 2800)
    /\ 2 * (Clamp(v, 2800, 3300) - 2800) <= 10 * b + 5

\* C18: constructing a handler appends it to the list of its gateway and
\* sid, keeping the handlers already there and their order, and leaves its
\* attributes holding exactly the battery level of the initial data when
\* that data has a voltage, and empty otherwise.
C18_ConstructorAppends ==
  [][Len(devices') # Len(devices) =>
       LET dev == Len(devices')
           hub == devices'[dev].hub
           sid == devices'[dev].sid
       IN /\ dev = Len(devices) + 1
          /\ SubSeq(devices', 1, Len(devices)) = devices
          /\ ha_devices'[hub][sid] = Append(ha_devices[hub][sid], dev)
          /\ \A h \in Hubs, s \in DeviceSids :
               (h # hub \/ s # sid) => ha_devices'[h][s] = ha_devices[h][s]
          /\ last'.op = "init" /\ last'.dev = dev
          /\ devices'[dev].attrs
               = (IF \E p \in last'.data : p[1] = "voltage"
                    THEN {<<"battery_level", NearestPercent(VoltageOf(last'.data))>>}
                    ELSE {})]_vars

\* C18 witness: the second handler of a list was constructed from data with
\* a voltage.
C18_Witness ==
  /\ last.op = "init"
  /\ last.dev = 2
  /\ ha_devices[1]["d1"] = <<1, 2>>
  /\ last.data = {<<"voltage", 3100>>}
  /\ devices[2].attrs = {<<"battery_level", 60>>}

\* C16: a handler's attributes have one writer: a step changes the
\* attributes of a handler only if it is a push to that handler, and a
\* handler appears only by its own construction; the services and the
\* shutdown hook change no handler's attributes, and a push to one handler
\* changes no other's.
C16_SingleWriter ==
  [][ /\ Len(devices') >= Len(devices)
      /\ \A d \in 1..Len(devices') :
           IF d > Len(devices)
             THEN last'.op = "init" /\ last'.dev = d
             ELSE devices'[d].attrs # devices[d].attrs =>
                    last'.op = "push" /\ last'.dev = d
      /\ (last'.op \in {"play", "stop"} \/ hook' # hook) => devices' = devices ]_vars

\* C16 witness: after a push to the first of two handlers, whose level it
\* changed, and a service call that wrote to a gateway, the hook has fired;
\* the two handlers hold different levels.
C16_Witness ==
  /\ Len(devices) = 2
  /\ devices[1].attrs = {<<"battery_level", 60>>}
  /\ devices[2].attrs = {<<"battery_level", 0>>}
  /\ last.op = "play"
  /\ Len(last.writes) = 1
  /\ hook = "fired"
====
